---- MODULE Spec2Model ----
(***************************************************************************)
(* pocket-server: the /sync and /get handlers of src/main.rs, driving the  *)
(* filehash table (metadata store) and the pocket-directory bucket (blob   *)
(* store).  Each handler is cut at its await points: one action per        *)
(* gateway call, with the synchronous code that follows it.                *)
(***************************************************************************)
EXTENDS Naturals, Sequences, FiniteSets, TLC

VARIABLES filehash, bucket, task, ledger

vars == <<filehash, bucket, task, ledger>>

(* ------------------------------ bounds -------------------------------- *)

\* entries in one manifest, all kinds together
MaxEntries == 2

(* ------------------------- program constants -------------------------- *)

StatusAccepted == 202
StatusBadRequest == 400
StatusOk == 200
StatusInternalServerError == 500
\* no response was written: the handler's task panicked
NoStatus == 0

(* ------------------------------- data --------------------------------- *)

\* Option<T>
None == <<>>
Some(x) == <<x>>

\* enum Operation, #[serde(rename_all = "lowercase")]
Operation == {"insert", "update", "delete"}

Handlers == {"h1", "h2"}

Paths == {"a.txt", "missing.txt"}
FileNames == {"f", "g"}
\* the file names of attached file parts
UploadNames == {"f"}

\* struct FileEntry
FileEntry(name, path, hash, size, mtime) ==
    [file_name |-> name, file_path |-> path, file_hash |-> hash,
     file_size |-> size, modified_time |-> mtime]

\* the entries clients submit
Entries ==
    { FileEntry("f", "a.txt", None, 10, 1000),
      FileEntry("g", "a.txt", Some("h1"), 20, 2000),
      FileEntry("f", "missing.txt", Some("h1"), 10, 1000) }

NoFile == FileEntry("", "", None, 0, 0)

\* struct FileFailure
FileFailure(path, error) == [file_path |-> path, error |-> error]

\* struct OperationResult
OperationResult(success, failure) == [success |-> success, failure |-> failure]

\* fn generate_system_path
generate_system_path(filename) == "data/" \o filename

\* error texts (Display of the gateway errors)
ErrConflict == "duplicate key value violates unique constraint"
ErrRowNotFound == "no rows returned by a query that expected to return at least one row"
ErrTransient == "pool timed out while waiting for an open connection"
ErrStorage == "dispatch failure"
ErrRead == "failed to read stream"
ErrDecode == "serde_json: invalid payload"
ErrNotInDb == "file not found in DB"
ErrBlobDelete(e) == "File delete failed: " \o e

(* ----------------------- the multipart request ------------------------ *)

SeqUpTo(S, n) == UNION { [1..k -> S] : k \in 0..n }

RECURSIVE SumLen(_, _)
SumLen(m, K) ==
    IF K = {} THEN 0
    ELSE LET k == CHOOSE x \in K : TRUE IN Len(m[k]) + SumLen(m, K \ {k})

\* JSON objects keyed by operation names, as the text of a "payload" field
JsonObjects(Keys, Elems) ==
    { m \in UNION { [K -> SeqUpTo(Elems, MaxEntries)] : K \in SUBSET Keys } :
        SumLen(m, DOMAIN m) <= MaxEntries }

NotJson == [valid |-> FALSE, json |-> <<>>]

\* {insert: [{file_path: "a.txt", file_size: 10, modified_time: 1000}],
\*  delete: [{file_path: "missing.txt"}]}
SpecExample ==
    [valid |-> TRUE,
     json |-> [k \in {"insert", "delete"} |->
                 IF k = "insert"
                 THEN <<[file_path |-> "a.txt", file_size |-> 10, modified_time |-> 1000]>>
                 ELSE <<[file_path |-> "missing.txt"]>>]]

\* the same batch with every field FileEntry needs
FullExample ==
    [valid |-> TRUE,
     json |-> [k \in {"insert", "delete"} |->
                 IF k = "insert"
                 THEN <<[file_name |-> "f", file_path |-> "a.txt", file_size |-> 10,
                         modified_time |-> 1000]>>
                 ELSE <<[file_name |-> "f", file_path |-> "missing.txt", file_size |-> 10,
                         modified_time |-> 1000]>>]]

\* payload texts: valid is whether the text is JSON at all
PayloadTexts ==
    { [valid |-> TRUE, json |-> m] : m \in JsonObjects(Operation, Entries) }
    \cup
    { NotJson,
      [valid |-> TRUE, json |-> [k \in {"rename"} |-> <<>>]],
      [valid |-> TRUE,
       json |-> [k \in {"insert", "rename"} |->
                   IF k = "insert" THEN <<FileEntry("f", "a.txt", None, 10, 1000)>>
                   ELSE <<>>]],
      SpecExample,
      FullExample,
      [valid |-> TRUE,
       json |-> [k \in {"delete"} |-> <<[file_path |-> "missing.txt"]>>]] }

\* serde: the fields FileEntry cannot be built without (Option fields default)
RequiredFields == {"file_name", "file_path", "file_size", "modified_time"}

\* a variant that defaults a missing file_hash to the empty string
DecodeEntry_EmptyHash(o) ==
    FileEntry(o.file_name, o.file_path,
              IF "file_hash" \in DOMAIN o THEN o.file_hash ELSE Some(""),
              o.file_size, o.modified_time)

\* serde: one entry object into a FileEntry
DecodeEntry(o) ==
    FileEntry(o.file_name, o.file_path,
              IF "file_hash" \in DOMAIN o THEN o.file_hash ELSE None,
              o.file_size, o.modified_time)

\* serde_json::from_str::<FileSyncPayload> succeeds
Decodes(text) ==
    /\ text.valid
    /\ DOMAIN text.json \subseteq Operation
    /\ \A k \in DOMAIN text.json :
         \A i \in 1..Len(text.json[k]) :
            RequiredFields \subseteq DOMAIN text.json[k][i]

\* serde_json::from_str::<FileSyncPayload>, when it succeeds
Decode(text) ==
    [k \in DOMAIN text.json |->
        [i \in 1..Len(text.json[k]) |-> DecodeEntry(text.json[k][i])]]

(* --------------------------- metadata store --------------------------- *)

\* a row of table filehash
Row(file, system_path) ==
    [file_path |-> file.file_path, file_hash |-> file.file_hash,
     file_size |-> file.file_size, modified_time |-> file.modified_time,
     system_path |-> system_path]

\* WHERE file_path = $path
Matching(table, path) == { r \in table : r.file_path = path }

\* the unique constraint on filehash.file_path rejects the INSERT
UniqueViolation(table, path) == Matching(table, path) # {}

\* RETURNING file_path, file_hash, file_size, modified_time, system_path AS file_name
Returning(r) ==
    FileEntry(r.system_path, r.file_path, r.file_hash, r.file_size, r.modified_time)

\* INSERT INTO filehash (...) VALUES ($1, $2, $3, $4, $5)
SqlInsert(table, file, system_path) == table \cup { Row(file, system_path) }

\* a variant whose UPDATE also sets system_path from the entry's file_name
SqlUpdate_Rekey(table, file) ==
    { IF r.file_path = file.file_path
      THEN [r EXCEPT !.file_hash = file.file_hash,
                     !.file_size = file.file_size,
                     !.modified_time = file.modified_time,
                     !.system_path = generate_system_path(file.file_name)]
      ELSE r : r \in table }

\* a variant whose UPDATE adds the entry's size to the row's
SqlUpdate_Accumulate(table, file) ==
    { IF r.file_path = file.file_path
      THEN [r EXCEPT !.file_hash = file.file_hash,
                     !.file_size = r.file_size + file.file_size,
                     !.modified_time = file.modified_time]
      ELSE r : r \in table }

\* UPDATE filehash SET file_hash = $1, file_size = $2, modified_time = $3 WHERE file_path = $4
SqlUpdate(table, file) ==
    { IF r.file_path = file.file_path
      THEN [r EXCEPT !.file_hash = file.file_hash,
                     !.file_size = file.file_size,
                     !.modified_time = file.modified_time]
      ELSE r : r \in table }

\* a variant whose DELETE matches on system_path
SqlDelete_WrongColumn(table, path) == table \ { r \in table : r.system_path = path }

\* DELETE FROM filehash WHERE file_path = $1
SqlDelete(table, path) == table \ Matching(table, path)

\* a variant whose SELECT aliases system_path as file_path
SqlSelectAll_Alias(table) ==
    { FileEntry(r.system_path, r.system_path, r.file_hash, r.file_size, r.modified_time) :
        r \in table }

\* SELECT ... system_path AS file_name FROM filehash
SqlSelectAll(table) == { Returning(r) : r \in table }

(* ----------------------------- handle_sync ---------------------------- *)

\* the locals of one handle_sync call; payload = None and response empty at entry
\* status with body, response (of /sync) or listing (of /get): what was answered;
\* text: the payload part as received; uploaded: a file part was put in the bucket
\* (kept until the multipart loop is left for the manifest);
\* last: the latest gateway call made for an entry of the connection's latest /sync,
\* and how it ended
Call(op, file, key, res) == [op |-> op, file |-> file, key |-> key, res |-> res]

NoCall == Call("none", NoFile, "", "")

\* struct GetAllResponse
GetAllResponse(data, error) == [data |-> data, error |-> error]

IdleTask ==
    [pc |-> "idle", text |-> None, payload |-> None, uploaded |-> FALSE, rest |-> <<>>,
     cmd |-> "", files |-> <<>>, success |-> <<>>, failure |-> <<>>,
     response |-> <<>>, status |-> NoStatus, body |-> "", system_path |-> "",
     listing |-> GetAllResponse(None, None), last |-> NoCall]

Called(t, call) == [t EXCEPT !.last = call]

\* HashMap::insert
MapInsert(m, k, v) == [x \in DOMAIN m \cup {k} |-> IF x = k THEN v ELSE m[x]]

\* an unwrap() on Err(e): the handler's task unwinds with e as its panic message
\* and no response is written
Panic(t, e) == [t EXCEPT !.pc = "panicked", !.status = NoStatus, !.body = e]

\* a variant that leaves a kind without reports out of the response
InsertResult_NonEmpty(t) ==
    IF t.success = <<>> /\ t.failure = <<>> THEN t
    ELSE [t EXCEPT !.response = MapInsert(t.response, t.cmd,
                                          OperationResult(t.success, t.failure))]

\* response.insert(cmd, OperationResult { success, failure })
InsertResult(t) ==
    [t EXCEPT !.response = MapInsert(t.response, t.cmd,
                                     OperationResult(t.success, t.failure))]

\* (StatusCode::ACCEPTED, Json(response))
Accepted(t) == [t EXCEPT !.pc = "done", !.status = StatusAccepted, !.cmd = "",
                         !.success = <<>>, !.failure = <<>>]

\* for (cmd, files) in payload: up to the next entry's gateway call, or the response
RECURSIVE EnterLoop(_)
EnterLoop(t) ==
    IF t.rest = <<>> THEN Accepted(t)
    ELSE LET t1 == [t EXCEPT !.cmd = Head(t.rest)[1], !.files = Head(t.rest)[2],
                             !.success = <<>>, !.failure = <<>>,
                             !.rest = Tail(t.rest)]
         IN  IF t1.files = <<>> THEN EnterLoop(InsertResult(t1))
             ELSE [t1 EXCEPT !.pc = "entry"]

\* for file in files: the entry at the head is consumed
NextFile(t) ==
    LET t1 == [t EXCEPT !.files = Tail(t.files), !.system_path = ""]
    IN  IF t1.files = <<>> THEN EnterLoop(InsertResult(t1))
        ELSE [t1 EXCEPT !.pc = "entry"]

\* success.push(..)
PushSuccess(t, entry) == [t EXCEPT !.success = Append(t.success, entry)]

\* failure.push(FileFailure { file_path, error })
PushFailure(t, path, error) ==
    [t EXCEPT !.failure = Append(t.failure, FileFailure(path, error))]

\* the iteration orders of a HashMap with these keys
Orders(K) == { o \in [1..Cardinality(K) -> K] : \A k \in K : \E i \in DOMAIN o : o[i] = k }

Current(h) == Head(task[h].files)

\* a request arrives on a free connection
Receive(h) ==
    /\ task[h].pc \in {"idle", "done", "panicked"}
    /\ task' = [task EXCEPT ![h] = [IdleTask EXCEPT !.pc = "fields"]]
    /\ UNCHANGED <<filehash, bucket, ledger>>

\* name == "payload": field.text().await.unwrap(); serde_json::from_str(&text).unwrap()
\* (the requests considered carry at most one payload part)
PayloadField(h, text, readOk) ==
    /\ task[h].pc = "fields"
    /\ task[h].payload = None
    /\ task' = [task EXCEPT ![h] =
                  IF ~readOk THEN Panic(@, ErrRead)
                  ELSE IF ~Decodes(text) THEN Panic([@ EXCEPT !.text = Some(text)], ErrDecode)
                  ELSE [@ EXCEPT !.text = Some(text), !.payload = Some(Decode(text))]]
    /\ UNCHANGED <<filehash, bucket, ledger>>

\* name == "files": put_object().key(generate_system_path(filename)).send().await.unwrap()
FilesField(h, file_name, readOk, putOk) ==
    /\ task[h].pc = "fields"
    /\ LET filename == IF file_name = None THEN "unknown" ELSE file_name[1]
           key == generate_system_path(filename)
       IN  IF ~readOk
           THEN /\ task' = [task EXCEPT ![h] = Panic(@, ErrRead)]
                /\ UNCHANGED bucket
           ELSE /\ bucket' = IF putOk THEN bucket \cup {key} ELSE bucket
                /\ task' = [task EXCEPT ![h] =
                              IF putOk THEN [@ EXCEPT !.uploaded = TRUE]
                              ELSE Panic(@, ErrStorage)]
    /\ UNCHANGED <<filehash, ledger>>

\* a field of any other name is skipped
OtherField(h) ==
    /\ task[h].pc = "fields"
    /\ UNCHANGED <<filehash, bucket, task, ledger>>

\* next_field() gives Ok(None) or Err: the loop ends; then the payload match
EndOfFields(h, order) ==
    /\ task[h].pc = "fields"
    /\ IF task[h].payload = None
       THEN /\ order = <<>>
            /\ task' = [task EXCEPT ![h] =
                          [@ EXCEPT !.pc = "done", !.status = StatusBadRequest,
                                    !.body = "Missing payload"]]
       ELSE LET payload == task[h].payload[1] IN
            /\ order \in Orders(DOMAIN payload)
            /\ task' = [task EXCEPT ![h] =
                          EnterLoop([@ EXCEPT !.uploaded = FALSE, !.rest =
                              [i \in DOMAIN order |-> <<order[i], payload[order[i]]>>]])]
    /\ UNCHANGED <<filehash, bucket, ledger>>

\* Result<T, E>
Ok(x) == [ok |-> TRUE, val |-> x]
Err(e) == [ok |-> FALSE, val |-> e]

\* a variant that reports every Insert as done
InsertMatch_AllSuccess(t, file, data) ==
    PushSuccess(t, IF data.ok THEN data.val ELSE file)

\* Operation::Insert, match data: Ok(res) => success.push(res), Err(err) => failure.push(..)
InsertMatch(t, file, data) ==
    IF data.ok THEN PushSuccess(t, data.val)
    ELSE PushFailure(t, file.file_path, data.val)

\* a variant that leaves the loop at the first failed Update
UpdateMatch_Break(t, file, data) ==
    IF data.ok THEN PushSuccess(t, data.val)
    ELSE [PushFailure(t, file.file_path, data.val) EXCEPT !.files = <<Head(t.files)>>]

\* Operation::Update, match data: Ok(row) => success.push(row), Err(e) => failure.push(..)
UpdateMatch(t, file, data) ==
    IF data.ok THEN PushSuccess(t, data.val)
    ELSE PushFailure(t, file.file_path, data.val)

\* a variant that takes a Delete of a path without a row as done
DeleteMatch_MissingOk(t, file, data) ==
    IF ~data.ok THEN NextFile(PushFailure(t, file.file_path, data.val))
    ELSE IF data.val = None THEN NextFile(PushSuccess(t, file))
    ELSE [t EXCEPT !.pc = "delete_object", !.system_path = data.val[1]]

\* Operation::Delete, match data: Ok(Some(system_path)) goes on to delete_object
DeleteMatch(t, file, data) ==
    IF ~data.ok THEN NextFile(PushFailure(t, file.file_path, data.val))
    ELSE IF data.val = None THEN NextFile(PushFailure(t, file.file_path, ErrNotInDb))
    ELSE [t EXCEPT !.pc = "delete_object", !.system_path = data.val[1]]

\* a variant that records the deleted object's key as the file name of the success
DeleteObjectMatch_PushKey(t, file, sent) ==
    IF sent.ok THEN PushSuccess(t, [file EXCEPT !.file_name = sent.val])
    ELSE PushFailure(t, file.file_path, ErrBlobDelete(sent.val))

\* a variant that ignores the result of delete_object
DeleteObjectMatch_Ignore(t, file, sent) == PushSuccess(t, file)

\* Operation::Delete, match delete_object(): Ok(_) => success.push(file), Err(e) => failure.push(..)
DeleteObjectMatch(t, file, sent) ==
    IF sent.ok THEN PushSuccess(t, file)
    ELSE PushFailure(t, file.file_path, ErrBlobDelete(sent.val))

\* a variant whose INSERT meets no unique constraint
InsertQuery_NoConstraint(table, file, system_path, dbOk) ==
    IF ~dbOk THEN Err(ErrTransient)
    ELSE Ok(Returning(Row(file, system_path)))

\* the INSERT ... RETURNING query, fetch_one
InsertQuery(table, file, system_path, dbOk) ==
    IF ~dbOk THEN Err(ErrTransient)
    ELSE IF UniqueViolation(table, file.file_path) THEN Err(ErrConflict)
    ELSE Ok(Returning(Row(file, system_path)))

\* a variant whose UPDATE of a path without a row answers with the entry
UpdateQuery_MissingOk(table, file, dbOk) ==
    IF ~dbOk THEN Err(ErrTransient)
    ELSE IF Matching(table, file.file_path) = {} THEN Ok(Returning(Row(file, "")))
    ELSE Ok(Returning(CHOOSE r \in Matching(SqlUpdate(table, file), file.file_path) : TRUE))

\* the UPDATE ... RETURNING query, fetch_one
UpdateQuery(table, file, dbOk) ==
    IF ~dbOk THEN Err(ErrTransient)
    ELSE IF Matching(table, file.file_path) = {} THEN Err(ErrRowNotFound)
    ELSE Ok(Returning(CHOOSE r \in Matching(SqlUpdate(table, file), file.file_path) : TRUE))

\* a variant whose DELETE answers with the key of the entry's file name
DeleteQuery_KeyFromName(table, file, dbOk) ==
    IF ~dbOk THEN Err(ErrTransient)
    ELSE IF Matching(table, file.file_path) = {} THEN Ok(None)
    ELSE Ok(Some(generate_system_path(file.file_name)))

\* the DELETE ... RETURNING system_path query, fetch_optional
DeleteQuery(table, file, dbOk) ==
    IF ~dbOk THEN Err(ErrTransient)
    ELSE IF Matching(table, file.file_path) = {} THEN Ok(None)
    ELSE Ok(Some((CHOOSE r \in Matching(table, file.file_path) : TRUE).system_path))

\* how a query ended, for the call record
Ended(data, miss) ==
    IF data.ok THEN (IF data.val = None THEN "not_found" ELSE "ok")
    ELSE IF data.val = ErrTransient THEN "error" ELSE miss

\* the ledger of what the responses have told clients about each path: "inserted"
\* after an Insert success, "absent" after a Delete success, "orphaned" when a Delete
\* of an inserted path was reported as a blob-store failure ("off": no ledger is kept)
Audit(l, t, matched, path) ==
    IF l[path] = "off" THEN l
    ELSE IF Len(matched.success) > Len(t.success)
    THEN [l EXCEPT ![path] = IF t.cmd = "insert" THEN "inserted"
                             ELSE IF t.cmd = "delete" THEN "absent" ELSE @]
    ELSE IF t.cmd = "delete" /\ t.pc = "delete_object" /\ l[path] = "inserted"
         THEN [l EXCEPT ![path] = "orphaned"]
         ELSE l

\* a variant whose Insert arm also puts an object at the entry's key
InsertEntry_Uploads(h, dbOk) ==
    /\ task[h].pc = "entry"
    /\ task[h].cmd = "insert"
    /\ LET file == Current(h)
           filename == generate_system_path(file.file_name)
           data == InsertQuery(filehash, file, filename, dbOk)
           matched == InsertMatch(task[h], file, data)
       IN  /\ filehash' = IF data.ok THEN SqlInsert(filehash, file, filename) ELSE filehash
           /\ task' = [task EXCEPT ![h] =
                         Called(NextFile(matched),
                                Call("insert", file, filename, Ended(data, "conflict")))]
           /\ ledger' = Audit(ledger, task[h], matched, file.file_path)
           /\ bucket' = bucket \cup {filename}

\* Operation::Insert, one file
InsertEntry(h, dbOk) ==
    /\ task[h].pc = "entry"
    /\ task[h].cmd = "insert"
    /\ LET file == Current(h)
           filename == generate_system_path(file.file_name)
           data == InsertQuery(filehash, file, filename, dbOk)
           matched == InsertMatch(task[h], file, data)
       IN  /\ filehash' = IF data.ok THEN SqlInsert(filehash, file, filename) ELSE filehash
           /\ task' = [task EXCEPT ![h] =
                         Called(NextFile(matched),
                                Call("insert", file, filename, Ended(data, "conflict")))]
           /\ ledger' = Audit(ledger, task[h], matched, file.file_path)
    /\ UNCHANGED <<bucket>>

\* Operation::Update, one file
UpdateEntry(h, dbOk) ==
    /\ task[h].pc = "entry"
    /\ task[h].cmd = "update"
    /\ LET file == Current(h)
           data == UpdateQuery(filehash, file, dbOk)
       IN  /\ filehash' = IF data.ok THEN SqlUpdate(filehash, file) ELSE filehash
           /\ task' = [task EXCEPT ![h] =
                         Called(NextFile(UpdateMatch(@, file, data)),
                                Call("update", file, "", Ended(data, "not_found")))]
    /\ UNCHANGED <<bucket, ledger>>

\* Operation::Delete, one file: the metadata delete
DeleteEntry(h, dbOk) ==
    /\ task[h].pc = "entry"
    /\ task[h].cmd = "delete"
    /\ LET file == Current(h)
           data == DeleteQuery(filehash, file, dbOk)
       IN  /\ filehash' = IF data.ok THEN SqlDelete(filehash, file.file_path) ELSE filehash
           /\ task' = [task EXCEPT ![h] =
                         Called(DeleteMatch(@, file, data),
                                Call("delete", file,
                                     IF data.ok /\ data.val # None THEN data.val[1] ELSE "",
                                     Ended(data, "not_found")))]
    /\ UNCHANGED <<bucket, ledger>>

\* Operation::Delete, one file: delete_object().key(&system_path).send()
DeleteObject(h, s3Ok) ==
    /\ task[h].pc = "delete_object"
    /\ LET file == Current(h)
           key == task[h].system_path
           sent == IF s3Ok THEN Ok(key) ELSE Err(ErrStorage)
           matched == DeleteObjectMatch(task[h], file, sent)
       IN  /\ bucket' = IF s3Ok THEN bucket \ {key} ELSE bucket
           /\ task' = [task EXCEPT ![h] =
                         Called(NextFile(matched),
                                Call("delete_object", file, key,
                                     IF s3Ok THEN "ok" ELSE "error"))]
           /\ ledger' = Audit(ledger, task[h], matched, file.file_path)
    /\ UNCHANGED filehash

\* the manifest loop as a function, every gateway call answered: st holds the table,
\* the bucket's objects and the response so far
RunEntry(st, cmd, file, res) ==
    IF cmd = "insert"
    THEN LET filename == generate_system_path(file.file_name)
             data == InsertQuery(st.table, file, filename, TRUE)
         IN  [table |-> IF data.ok THEN SqlInsert(st.table, file, filename) ELSE st.table,
              objects |-> st.objects,
              result |-> IF data.ok
                         THEN OperationResult(Append(res.success, data.val), res.failure)
                         ELSE OperationResult(res.success,
                                Append(res.failure, FileFailure(file.file_path, data.val)))]
    ELSE IF cmd = "update"
    THEN LET data == UpdateQuery(st.table, file, TRUE)
         IN  [table |-> IF data.ok THEN SqlUpdate(st.table, file) ELSE st.table,
              objects |-> st.objects,
              result |-> IF data.ok
                         THEN OperationResult(Append(res.success, data.val), res.failure)
                         ELSE OperationResult(res.success,
                                Append(res.failure, FileFailure(file.file_path, data.val)))]
    ELSE LET data == DeleteQuery(st.table, file, TRUE)
         IN  IF data.val = None
             THEN [table |-> st.table, objects |-> st.objects,
                   result |-> OperationResult(res.success,
                                Append(res.failure, FileFailure(file.file_path, ErrNotInDb)))]
             ELSE [table |-> SqlDelete(st.table, file.file_path),
                   objects |-> st.objects \ {data.val[1]},
                   result |-> OperationResult(Append(res.success, file), res.failure)]

\* for file in files
RECURSIVE RunKind(_, _, _, _)
RunKind(st, cmd, files, res) ==
    IF files = <<>> THEN [table |-> st.table, objects |-> st.objects, result |-> res]
    ELSE LET s1 == RunEntry(st, cmd, Head(files), res)
         IN  RunKind(s1, cmd, Tail(files), s1.result)

\* for (cmd, files) in payload, the kinds taken in the given order
RECURSIVE RunBatch(_, _, _)
RunBatch(st, payload, order) ==
    IF order = <<>> THEN st
    ELSE LET k == Head(order)
             s1 == RunKind(st, k, payload[k], OperationResult(<<>>, <<>>))
         IN  RunBatch([table |-> s1.table, objects |-> s1.objects,
                       response |-> MapInsert(st.response, k, s1.result)],
                      payload, Tail(order))

(* --------------------------- handle_get_all --------------------------- *)

\* match result: Ok(rows) => (200, data), Err(err) => (500, error)
GetAllMatch(t, result) ==
    IF result.ok
    THEN [t EXCEPT !.status = StatusOk,
                   !.listing = GetAllResponse(Some(result.val), None)]
    ELSE [t EXCEPT !.status = StatusInternalServerError,
                   !.listing = GetAllResponse(None, Some(result.val))]

\* SELECT ... FROM filehash, fetch_all
SelectQuery(table, dbOk) == IF dbOk THEN Ok(SqlSelectAll(table)) ELSE Err(ErrTransient)

\* GET /get on a free connection; the answer replaces the connection's previous one
handle_get_all(h, dbOk) ==
    /\ task[h].pc \in {"idle", "done", "panicked"}
    /\ task' = [task EXCEPT ![h] =
                  GetAllMatch([IdleTask EXCEPT !.pc = "done", !.last = task[h].last],
                              SelectQuery(filehash, dbOk))]
    /\ UNCHANGED <<filehash, bucket, ledger>>

(* --------------------------- specification ---------------------------- *)

\* one connection: requests are served one after the other
Init ==
    /\ filehash = {}
    /\ bucket = {}
    /\ task = [h \in {"h1"} |-> IdleTask]
    /\ ledger = [p \in Paths |-> "off"]

Next ==
    \/ \E h \in DOMAIN task : Receive(h)
    \/ \E h \in DOMAIN task, text \in PayloadTexts : PayloadField(h, text, TRUE)
    \/ \E h \in DOMAIN task : PayloadField(h, NotJson, FALSE)
    \/ \E h \in DOMAIN task, name \in {Some(n) : n \in UploadNames},
          readOk \in BOOLEAN, putOk \in BOOLEAN : FilesField(h, name, readOk, putOk)
    \/ \E h \in DOMAIN task : OtherField(h)
    \/ \E h \in DOMAIN task, order \in SeqUpTo(Operation, Cardinality(Operation)) :
          EndOfFields(h, order)
    \/ \E h \in DOMAIN task, dbOk \in BOOLEAN : InsertEntry(h, dbOk)
    \/ \E h \in DOMAIN task, dbOk \in BOOLEAN : UpdateEntry(h, dbOk)
    \/ \E h \in DOMAIN task, dbOk \in BOOLEAN : DeleteEntry(h, dbOk)
    \/ \E h \in DOMAIN task, s3Ok \in BOOLEAN : DeleteObject(h, s3Ok)
    \/ \E h \in DOMAIN task, dbOk \in BOOLEAN : handle_get_all(h, dbOk)

Spec == Init /\ [][Next]_vars

\* the same, with the ledger of reports kept
InitAudit ==
    /\ filehash = {}
    /\ bucket = {}
    /\ task = [h \in {"h1"} |-> IdleTask]
    /\ ledger = [p \in Paths |-> "absent"]

SpecAudit == InitAudit /\ [][Next]_vars

\* two connections, each serving one request whose manifest has one entry, on a
\* store that holds the row and the object of a.txt
RaceEntries == Entries \cup { FileEntry("g", "missing.txt", None, 30, 3000) }

RaceTexts ==
    { [valid |-> TRUE, json |-> [k \in {op} |-> <<e>>]] :
        op \in Operation, e \in RaceEntries }

RaceStore == { Row(FileEntry("f", "a.txt", None, 10, 1000), generate_system_path("f")) }

InitRace ==
    /\ filehash = RaceStore
    /\ bucket = { generate_system_path("f") }
    /\ task = [h \in Handlers |-> IdleTask]
    /\ ledger = [p \in Paths |-> "off"]

NextRace ==
    \/ \E h \in DOMAIN task : task[h].pc = "idle" /\ Receive(h)
    \/ \E h \in DOMAIN task, text \in RaceTexts : PayloadField(h, text, TRUE)
    \/ \E h \in DOMAIN task, order \in SeqUpTo(Operation, 1) : EndOfFields(h, order)
    \/ \E h \in DOMAIN task, dbOk \in BOOLEAN : InsertEntry(h, dbOk)
    \/ \E h \in DOMAIN task, dbOk \in BOOLEAN : UpdateEntry(h, dbOk)
    \/ \E h \in DOMAIN task, dbOk \in BOOLEAN : DeleteEntry(h, dbOk)
    \/ \E h \in DOMAIN task, s3Ok \in BOOLEAN : DeleteObject(h, s3Ok)

SpecRace == InitRace /\ [][NextRace]_vars

(* ------------------------------ claims -------------------------------- *)

\* the result lists of kind k as the handler holds them: in progress, or in the response
ResultOf(t, k) ==
    IF t.pc \in {"entry", "delete_object"} /\ t.cmd = k
    THEN OperationResult(t.success, t.failure)
    ELSE IF k \in DOMAIN t.response THEN t.response[k]
    ELSE OperationResult(<<>>, <<>>)

\* the entries of a list that name path
Count(list, path) == Cardinality({ i \in DOMAIN list : list[i].file_path = path })

Processing(t) == t.pc \in {"entry", "delete_object"}

\* C1: once a manifest has decoded, no gateway failure aborts the batch: the handler
\* never unwinds after its first entry, every entry handled so far sits in exactly one
\* of its kind's success and failure lists, and the response has, for every kind of the
\* manifest, as many reports per path as entries were submitted.
C1_BatchNeverAborted ==
    \A h \in DOMAIN task :
      LET t == task[h] IN
      /\ t.pc = "panicked" => t.cmd = "" /\ t.response = <<>> /\ t.last = NoCall
      /\ Processing(t) =>
           /\ t.payload # None
           /\ t.cmd \in DOMAIN t.payload[1]
           /\ \A path \in Paths :
                Count(t.success, path) + Count(t.failure, path) + Count(t.files, path)
                  = Count(t.payload[1][t.cmd], path)
      /\ t.payload # None /\ t.pc \in {"entry", "delete_object", "done"} =>
           \A k \in DOMAIN t.response :
             /\ k \in DOMAIN t.payload[1]
             /\ \A path \in Paths :
                  Count(t.response[k].success, path) + Count(t.response[k].failure, path)
                    = Count(t.payload[1][k], path)
      /\ t.payload # None /\ t.pc = "done" =>
           /\ t.status = StatusAccepted
           /\ DOMAIN t.response = DOMAIN t.payload[1]

\* a batch whose first Delete met a metadata error and whose second met a blob error
C1_Witness ==
    \E h \in DOMAIN task :
      /\ task[h].pc = "done"
      /\ task[h].status = StatusAccepted
      /\ "delete" \in DOMAIN task[h].response
      /\ Len(task[h].response["delete"].failure) = 2
      /\ task[h].response["delete"].failure[1].error = ErrTransient
      /\ task[h].response["delete"].failure[2].error = ErrBlobDelete(ErrStorage)

\* the step of h is the blob delete of a Delete entry, and the blob store failed
BlobDeleteFails(h) ==
    /\ task[h].pc = "delete_object"
    /\ task'[h].last = Call("delete_object", Current(h), task[h].system_path, "error")
    /\ task'[h] # task[h]

\* C2: when the blob delete of a Delete entry fails, the metadata row of the path is
\* absent afterwards, the bucket is as it was (the object is still there), and the
\* entry is appended to the delete failure list and not to the success list.
C2_BlobFailureOrphans ==
    [][\A h \in DOMAIN task :
         BlobDeleteFails(h) =>
           /\ Matching(filehash', Current(h).file_path) = {}
           /\ { x \in SqlSelectAll(filehash') : x.file_path = Current(h).file_path } = {}
           /\ bucket' = bucket
           /\ ResultOf(task'[h], "delete").success = ResultOf(task[h], "delete").success
           /\ ResultOf(task'[h], "delete").failure =
                Append(ResultOf(task[h], "delete").failure,
                       FileFailure(Current(h).file_path, ErrBlobDelete(ErrStorage)))]_vars

\* a failed blob delete has left the object in the bucket and no row for the path
C2_Witness ==
    \E h \in DOMAIN task :
      /\ task[h].last.op = "delete_object"
      /\ task[h].last.res = "error"
      /\ task[h].last.key \in bucket
      /\ Matching(filehash, task[h].last.file.file_path) = {}
      /\ task[h].pc = "done"
      /\ Count(task[h].response["delete"].failure, task[h].last.file.file_path) = 1
      /\ task[h].response["delete"].success = <<>>

\* the not-found indication of each kind
NotFoundText(cmd) == IF cmd = "update" THEN ErrRowNotFound ELSE ErrNotInDb

\* the step of h is the metadata call of an Update or Delete entry whose path has no row
MissingPathStep(h) ==
    /\ task[h].pc = "entry"
    /\ task[h].cmd \in {"update", "delete"}
    /\ Matching(filehash, Current(h).file_path) = {}
    /\ task'[h] # task[h]

\* what C3 asks of such a step, with the error text the failure must carry
MissingPathOutcome(h, error) ==
    LET k == task[h].cmd IN
    /\ ResultOf(task'[h], k).failure =
         Append(ResultOf(task[h], k).failure, FileFailure(Current(h).file_path, error))
    /\ ResultOf(task'[h], k).success = ResultOf(task[h], k).success
    /\ filehash' = filehash
    /\ Cardinality(SqlSelectAll(filehash')) = Cardinality(SqlSelectAll(filehash))
    /\ task'[h].pc # "delete_object"
    /\ bucket' = bucket

\* C3 as claimed: an Update or Delete entry for a path without a row is reported as a
\* failure with a not-found indication, the rows are unchanged and no blob call is made.
C3_Claimed ==
    [][\A h \in DOMAIN task :
         MissingPathStep(h) => MissingPathOutcome(h, NotFoundText(task[h].cmd))]_vars

\* C3 (amended): an Update or Delete entry for a path without a row is reported as a
\* failure, the rows are unchanged and no blob call is made; the failure carries the
\* not-found indication whenever the metadata store answered the call, and the store's
\* error text when the call itself failed.
C3_MissingPathFails ==
    [][\A h \in DOMAIN task :
         MissingPathStep(h) =>
           MissingPathOutcome(h, IF task'[h].last.res = "error" THEN ErrTransient
                                 ELSE NotFoundText(task[h].cmd))]_vars

\* a batch answered not-found for an Update and a Delete of a path missing from a
\* store that holds another row
C3_Witness ==
    \E h \in DOMAIN task, p \in Paths :
      /\ task[h].pc = "done"
      /\ DOMAIN task[h].response = {"update", "delete"}
      /\ task[h].response["update"].failure = <<FileFailure(p, ErrRowNotFound)>>
      /\ task[h].response["delete"].failure = <<FileFailure(p, ErrNotInDb)>>
      /\ task[h].response["update"].success = <<>>
      /\ task[h].response["delete"].success = <<>>
      /\ Matching(filehash, p) = {}
      /\ filehash # {}

\* the step of h is the metadata call of an Insert entry
InsertStep(h) ==
    /\ task[h].pc = "entry"
    /\ task[h].cmd = "insert"
    /\ task'[h] # task[h]

\* the row a successful Insert of entry e leaves
RowOf(e) == Row(e, generate_system_path(e.file_name))

\* the Insert entry at hand follows, in its batch, an Insert entry of the same path
\* that found no row of that path
SecondOfTwo(h) ==
    /\ task[h].last.op = "insert"
    /\ task[h].last.file.file_path = Current(h).file_path
    /\ \/ task[h].last.res = "ok"
       \/ task[h].last.res = "error" /\ Matching(filehash, Current(h).file_path) = {}

\* the second Insert is the conflict, the first the success, and its row the only one
SecondConflicts(h) ==
    LET e1 == task[h].last.file
        p == Current(h).file_path
        r == ResultOf(task[h], "insert")
    IN  /\ r.success # <<>>
        /\ r.success[Len(r.success)] = Returning(RowOf(e1))
        /\ ResultOf(task'[h], "insert").success = r.success
        /\ ResultOf(task'[h], "insert").failure = Append(r.failure, FileFailure(p, ErrConflict))
        /\ Matching(filehash', p) = { RowOf(e1) }

\* C4 as claimed: of two Insert entries with the same path handled one after the other
\* from a store without the path, the first succeeds, the second fails as a conflict,
\* and one row with the path exists, holding the first entry's fields.
C4_Claimed ==
    [][\A h \in DOMAIN task :
         InsertStep(h) /\ SecondOfTwo(h) => SecondConflicts(h)]_vars

\* C4 (amended): the same, when neither INSERT fails with a store error.  In one batch:
\* the second of two such entries is the conflict and the first entry's row stays the
\* only one.  Across batches: an Insert entry whose path has no row succeeds and leaves
\* exactly its row, and one whose path has a row fails as a conflict and changes nothing.
C4_SecondInsertConflicts ==
    [][\A h \in DOMAIN task :
         InsertStep(h) /\ task'[h].last.res # "error" =>
           LET e == Current(h)
               r == ResultOf(task[h], "insert")
           IN  /\ (SecondOfTwo(h) /\ task[h].last.res = "ok") => SecondConflicts(h)
               /\ Matching(filehash, e.file_path) = {} =>
                    /\ ResultOf(task'[h], "insert").success =
                         Append(r.success, Returning(RowOf(e)))
                    /\ ResultOf(task'[h], "insert").failure = r.failure
                    /\ Matching(filehash', e.file_path) = { RowOf(e) }
               /\ Matching(filehash, e.file_path) # {} =>
                    /\ ResultOf(task'[h], "insert").success = r.success
                    /\ ResultOf(task'[h], "insert").failure =
                         Append(r.failure, FileFailure(e.file_path, ErrConflict))
                    /\ filehash' = filehash]_vars

\* a batch of two different Insert entries of one path: the first in, the second a conflict
C4_Witness ==
    \E h \in DOMAIN task, e1 \in Entries, e2 \in Entries :
      /\ e1 # e2
      /\ e1.file_path = e2.file_path
      /\ task[h].pc = "done"
      /\ task[h].payload = Some([k \in {"insert"} |-> <<e1, e2>>])
      /\ task[h].response["insert"].success = <<Returning(RowOf(e1))>>
      /\ task[h].response["insert"].failure = <<FileFailure(e2.file_path, ErrConflict)>>
      /\ Matching(filehash, e1.file_path) = { RowOf(e1) }

\* the entries of a /get answer that name path
Listed(t, path) ==
    IF t.listing.data = None THEN {}
    ELSE { x \in t.listing.data[1] : x.file_path = path }

\* C5 as claimed: a listing that follows the Insert of an entry at once returns
\* exactly one entry with the entry's path.
C5_Claimed ==
    \A h \in DOMAIN task :
      LET t == task[h] IN
      (/\ t.pc = "done"
       /\ t.status \in {StatusOk, StatusInternalServerError}
       /\ t.last.op = "insert")
      => /\ t.listing.data # None
         /\ Cardinality(Listed(t, t.last.file.file_path)) = 1

\* C5 (amended): when the INSERT did not fail with a store error and the listing's query
\* succeeded, the listing that follows the Insert of an entry at once returns exactly
\* one entry with the entry's path.
C5_InsertThenListed ==
    \A h \in DOMAIN task :
      LET t == task[h] IN
      (/\ t.pc = "done"
       /\ t.status = StatusOk
       /\ t.last.op = "insert"
       /\ t.last.res # "error")
      => /\ t.listing.data # None
         /\ Cardinality(Listed(t, t.last.file.file_path)) = 1

\* a listing of two rows right after a successful Insert
C5_Witness ==
    \E h \in DOMAIN task :
      /\ task[h].pc = "done"
      /\ task[h].status = StatusOk
      /\ task[h].last.op = "insert"
      /\ task[h].last.res = "ok"
      /\ task[h].listing.data # None
      /\ Cardinality(task[h].listing.data[1]) = 2
      /\ Cardinality(Listed(task[h], task[h].last.file.file_path)) = 1

\* the request of h has ended on a payload that is absent or does not decode
Malformed(t) ==
    \/ t.pc = "panicked" /\ t.body = ErrDecode
    \/ t.pc = "done" /\ t.status = StatusBadRequest

\* C6 as claimed: a request whose manifest is absent, is not valid structured data or
\* has an unrecognized operation key has made no call to the metadata store or to the
\* blob store, attached file parts included, and is answered with one malformed-request
\* error.
C6_Claimed ==
    \A h \in DOMAIN task :
      Malformed(task[h]) =>
        /\ ~task[h].uploaded
        /\ task[h].last = NoCall
        /\ task[h].status = StatusBadRequest

\* the Insert entry of FullExample as persisted, and its Delete entry as submitted
ExampleInserted == FileEntry("data/f", "a.txt", None, 10, 1000)
ExampleDeleted == FileEntry("f", "missing.txt", None, 10, 1000)

\* the response the example batch is to get from an empty store
ExampleResponse ==
    [k \in {"insert", "delete"} |->
       IF k = "insert" THEN OperationResult(<<ExampleInserted>>, <<>>)
       ELSE OperationResult(<<>>, <<FileFailure("missing.txt", ErrNotInDb)>>)]

LastOfExample(h) ==
    /\ task[h].text = Some(FullExample)
    /\ task[h].pc = "entry"
    /\ task[h].rest = <<>>
    /\ task'[h] # task[h]
    /\ task'[h].last.res # "error"
    /\ \/ /\ task[h].cmd = "delete"
          /\ task[h].last.op = "insert"
          /\ task[h].last.res = "ok"
          /\ filehash = { RowOf(ExampleInserted) }
       \/ /\ task[h].cmd = "insert"
          /\ task[h].last.op = "delete"
          /\ task[h].last.res = "not_found"
          /\ filehash = {}

C8_Claimed ==
    \A h \in DOMAIN task :
      task[h].body = ErrStorage => task[h].pc # "panicked"

\* C9 as claimed: every sync request whose manifest decoded is answered 202 Accepted
\* with the result mapping of the manifest's kinds.
C9_Claimed ==
    \A h \in DOMAIN task :
      (task[h].payload # None /\ task[h].pc \in {"done", "panicked"}) =>
        /\ task[h].status = StatusAccepted
        /\ DOMAIN task[h].response = DOMAIN task[h].payload[1]

RowExists(p) == Matching(filehash, p) # {}

\* a Delete entry of p is between its metadata delete and its report
InFlight(p) ==
    \E h \in DOMAIN task :
      task[h].pc = "delete_object" /\ Current(h).file_path = p

\* C10 as claimed: a row for p exists exactly when an Insert entry for p has been
\* reported a success and no Delete entry for p has been reported a success since.
C10_Claimed ==
    \A p \in Paths :
      ~InFlight(p) => (RowExists(p) <=> ledger[p] \in {"inserted", "orphaned"})

\* C10 (amended): a row for p exists exactly when an Insert entry for p has been
\* reported a success and since then no Delete entry for p has removed the row: none
\* has been reported a success or a blob-delete failure, and none is between its
\* metadata delete and its report.
C10_RowIffInsertedNotRemoved ==
    \A p \in Paths :
      RowExists(p) <=> (ledger[p] = "inserted" /\ ~InFlight(p))

\* one path inserted and kept, the other removed by a Delete reported as a failure
C10_Witness ==
    \E p \in Paths, q \in Paths :
      /\ ledger[p] = "orphaned"
      /\ ~RowExists(p)
      /\ ledger[q] = "inserted"
      /\ RowExists(q)
      /\ \A h \in DOMAIN task : task[h].pc = "done"

\* the request of h was a manifest of one entry of kind op, and is answered
OneEntryDone(h, op) ==
    /\ task[h].pc = "done"
    /\ task[h].payload # None
    /\ DOMAIN task[h].payload[1] = {op}
    /\ Len(task[h].payload[1][op]) = 1

EntryOf(h, op) == task[h].payload[1][op][1]

\* both requests are answered, each was an Insert entry of path p, which had no row
InsertRace(h1, h2, p) ==
    /\ h1 # h2
    /\ OneEntryDone(h1, "insert") /\ EntryOf(h1, "insert").file_path = p
    /\ OneEntryDone(h2, "insert") /\ EntryOf(h2, "insert").file_path = p
    /\ Matching(RaceStore, p) = {}

\* one of the two entries is a success, the other a failure, and the path has one row
OneWins(h1, h2, p) ==
    LET r1 == task[h1].response["insert"]
        r2 == task[h2].response["insert"]
    IN  /\ Len(r1.success) + Len(r2.success) = 1
        /\ Len(r1.failure) + Len(r2.failure) = 1
        /\ Len(r1.success) + Len(r1.failure) = 1
        /\ Cardinality(Matching(filehash, p)) = 1

\* C11 as claimed: of two concurrent requests that each insert the same new path,
\* under every interleaving one entry is a success and the other a failure, and one
\* row for the path exists afterwards.
C11_Claimed ==
    \A h1 \in DOMAIN task, h2 \in DOMAIN task, p \in Paths :
      InsertRace(h1, h2, p) => OneWins(h1, h2, p)

\* C11 (amended): the same, unless both INSERT calls fail with a store error; the
\* winner's row is the one row of the path and holds the winner's fields, and the
\* loser's failure is the conflict when its INSERT was answered.  When both calls
\* fail, both entries are failures and the path has no row.
C11_OneInsertWins ==
    \A h1 \in DOMAIN task, h2 \in DOMAIN task, p \in Paths :
      InsertRace(h1, h2, p) =>
        IF task[h1].last.res = "error" /\ task[h2].last.res = "error"
        THEN /\ task[h1].response["insert"].success = <<>>
             /\ task[h2].response["insert"].success = <<>>
             /\ Matching(filehash, p) = {}
        ELSE /\ OneWins(h1, h2, p)
             /\ task[h1].response["insert"].success # <<>> =>
                  /\ task[h1].response["insert"].success =
                       <<Returning(RowOf(EntryOf(h1, "insert")))>>
                  /\ Matching(filehash, p) = { RowOf(EntryOf(h1, "insert")) }
                  /\ task[h2].last.res # "error" =>
                       task[h2].response["insert"].failure = <<FileFailure(p, ErrConflict)>>

\* two different entries of one new path raced; the conflict went to the one that
\* was received first
C11_Witness ==
    \E h1 \in DOMAIN task, h2 \in DOMAIN task, p \in Paths :
      /\ InsertRace(h1, h2, p)
      /\ EntryOf(h1, "insert") # EntryOf(h2, "insert")
      /\ task[h1].response["insert"].failure = <<FileFailure(p, ErrConflict)>>
      /\ task[h2].response["insert"].success = <<Returning(RowOf(EntryOf(h2, "insert")))>>
      /\ Matching(filehash, p) = { RowOf(EntryOf(h2, "insert")) }

\* both requests are answered: an Update entry and a Delete entry of path p, which
\* had a row, and no gateway call of either failed
UpdateDeleteRace(hu, hd, p) ==
    /\ hu # hd
    /\ OneEntryDone(hu, "update") /\ EntryOf(hu, "update").file_path = p
    /\ OneEntryDone(hd, "delete") /\ EntryOf(hd, "delete").file_path = p
    /\ Matching(RaceStore, p) # {}
    /\ task[hu].last.res # "error"
    /\ task[hd].last.res # "error"

\* the row of p in the store the race began on, as the Update of e leaves it
UpdatedRow(e) == CHOOSE r \in Matching(SqlUpdate(RaceStore, e), e.file_path) : TRUE

\* the step of h is the metadata call of an entry of kind op, answered res
Answered(h, op, res) ==
    /\ task[h].pc = "entry"
    /\ task[h].cmd = op
    /\ task'[h] # task[h]
    /\ task'[h].last.res = res

\* C12: an Update entry and a Delete entry of the same existing path, processed by two
\* concurrent requests with no gateway faults, end in one of two ways: the Update
\* succeeds on the row and the Delete then removes it, or the Update fails not-found
\* after the row was deleted.  The Delete reports not-found only if the row was gone
\* (here: never).  In every interleaving the row is absent at the end, and no row of
\* another path has changed.
C12_UpdateDeleteRace ==
    /\ [](\A hu \in DOMAIN task, hd \in DOMAIN task, p \in Paths :
            UpdateDeleteRace(hu, hd, p) =>
              /\ Matching(filehash, p) = {}
              /\ { r \in filehash : r.file_path # p } = { r \in RaceStore : r.file_path # p }
              /\ task[hd].response["delete"] =
                   OperationResult(<<EntryOf(hd, "delete")>>, <<>>)
              /\ \/ task[hu].response["update"] =
                      OperationResult(<<Returning(UpdatedRow(EntryOf(hu, "update")))>>, <<>>)
                 \/ task[hu].response["update"] =
                      OperationResult(<<>>, <<FileFailure(p, ErrRowNotFound)>>))
    /\ [][\A h \in DOMAIN task :
            /\ Answered(h, "update", "not_found") =>
                 Matching(filehash, Current(h).file_path) = {}
            /\ Answered(h, "delete", "not_found") =>
                 Matching(filehash, Current(h).file_path) = {}
            /\ Answered(h, "update", "ok") =>
                 /\ Matching(filehash, Current(h).file_path) # {}
                 /\ Matching(filehash', Current(h).file_path) # {}]_vars

\* the Update was answered not-found while the Delete of the same path, its row
\* removed, had not yet sent its blob delete
C12_Witness ==
    \E hu \in DOMAIN task, hd \in DOMAIN task, p \in Paths :
      /\ OneEntryDone(hu, "update")
      /\ task[hu].response["update"].failure = <<FileFailure(p, ErrRowNotFound)>>
      /\ task[hd].pc = "delete_object"
      /\ Current(hd).file_path = p
      /\ Matching(RaceStore, p) # {}
      /\ Matching(filehash, p) = {}

\* the step of h is the metadata call of an Update entry
UpdateStep(h) ==
    /\ task[h].pc = "entry"
    /\ task[h].cmd = "update"
    /\ task'[h] # task[h]

\* a row with the hash, size and modified time of entry e
Holds(r, e) ==
    /\ r.file_hash = e.file_hash
    /\ r.file_size = e.file_size
    /\ r.modified_time = e.modified_time

\* the Update entry at hand repeats the one just processed, which succeeded
RepeatsUpdate(h) == task[h].last = Call("update", Current(h), "", "ok")

\* the Update succeeds again with the same answer, and the store is as it was
SameAgain(h) ==
    LET r == ResultOf(task[h], "update") IN
    /\ r.success # <<>>
    /\ ResultOf(task'[h], "update").success = Append(r.success, r.success[Len(r.success)])
    /\ ResultOf(task'[h], "update").failure = r.failure
    /\ filehash' = filehash

\* C13 as claimed: an Update entry identical to the one just run on an existing path
\* succeeds again, and the store after the second run equals the store after the first.
C13_Claimed ==
    [][\A h \in DOMAIN task : UpdateStep(h) /\ RepeatsUpdate(h) => SameAgain(h)]_vars

\* C13 (amended): the same, when neither UPDATE call fails with a store error.  An
\* Update of an existing path that is answered succeeds and leaves the row with the
\* entry's hash, size and modified time; run on a row that already holds them (in the
\* same batch or a later one) it succeeds and leaves the store as it was.
C13_UpdateIdempotent ==
    [][\A h \in DOMAIN task :
         (/\ UpdateStep(h)
          /\ task'[h].last.res # "error"
          /\ Matching(filehash, Current(h).file_path) # {}) =>
           LET e == Current(h)
               r == ResultOf(task[h], "update")
           IN  /\ \A x \in Matching(filehash', e.file_path) : Holds(x, e)
               /\ Matching(filehash', e.file_path) # {}
               /\ ResultOf(task'[h], "update").failure = r.failure
               /\ \E x \in Matching(filehash', e.file_path) :
                    ResultOf(task'[h], "update").success = Append(r.success, Returning(x))
               /\ (\A x \in Matching(filehash, e.file_path) : Holds(x, e)) =>
                    filehash' = filehash
               /\ RepeatsUpdate(h) => SameAgain(h)]_vars

\* a batch of one Update entry twice, on a row inserted with other fields: two equal
\* successes, and the row holds the entry's fields
C13_Witness ==
    \E h \in DOMAIN task :
      LET e == FileEntry("g", "a.txt", Some("h1"), 20, 2000) IN
      /\ task[h].pc = "done"
      /\ task[h].payload = Some([k \in {"update"} |-> <<e, e>>])
      /\ task[h].response["update"] =
           OperationResult(<<FileEntry("data/f", "a.txt", Some("h1"), 20, 2000),
                             FileEntry("data/f", "a.txt", Some("h1"), 20, 2000)>>, <<>>)
      /\ Matching(filehash, "a.txt") = { Row(e, "data/f") }

\* the rows of table with path
Others(table, path) == { r \in table : r.file_path # path }

\* C14: processing an Update entry, whether it succeeds or fails, makes no blob-store
\* call and leaves the bucket as it was; in the metadata store every row of another
\* path is unchanged, and the row of the entry's path keeps its path and its storage
\* key (on success only its hash, size and modified time become the entry's; on
\* failure the store is unchanged).
C14_UpdateFrame ==
    [][\A h \in DOMAIN task :
         UpdateStep(h) =>
           LET e == Current(h) IN
           /\ bucket' = bucket
           /\ task'[h].pc # "delete_object"
           /\ task'[h].last.op = "update"
           /\ Others(filehash', e.file_path) = Others(filehash, e.file_path)
           /\ Matching(filehash', e.file_path) =
                IF task'[h].last.res = "ok"
                THEN { [r EXCEPT !.file_hash = e.file_hash, !.file_size = e.file_size,
                                 !.modified_time = e.modified_time] :
                         r \in Matching(filehash, e.file_path) }
                ELSE Matching(filehash, e.file_path)
           /\ { <<r.file_path, r.system_path>> : r \in filehash' } =
                { <<r.file_path, r.system_path>> : r \in filehash }]_vars

\* an Update just succeeded on a row whose storage key is not that of the entry's
\* file name, in a store with another row and an object in the bucket
C14_Witness ==
    \E h \in DOMAIN task :
      /\ task[h].last.op = "update"
      /\ task[h].last.res = "ok"
      /\ Cardinality(filehash) = 2
      /\ bucket # {}
      /\ \E r \in Matching(filehash, task[h].last.file.file_path) :
           /\ r.system_path # generate_system_path(task[h].last.file.file_name)
           /\ Holds(r, task[h].last.file)

\* the entries of kind k reported so far
Reports(t, k) == Len(ResultOf(t, k).success) + Len(ResultOf(t, k).failure)

\* the step of h is the metadata call of a Delete entry
DeleteStep(h) ==
    /\ task[h].pc = "entry"
    /\ task[h].cmd = "delete"
    /\ task'[h] # task[h]

\* the step of h is the blob delete of a Delete entry
BlobStep(h) ==
    /\ task[h].pc = "delete_object"
    /\ task'[h] # task[h]

\* C15: for each Delete entry the metadata delete is issued once and before any blob
\* call; the blob delete is issued at most once, only right after the metadata delete
\* of the same entry removed a row, and with the storage key that row held; when the
\* metadata delete finds no row or fails, the entry is reported without a blob call.
\* No gateway call is retried: every call either hands the entry on to its blob delete
\* or ends in the entry's one report.
C15_DeleteOrder ==
    [][\A h \in DOMAIN task :
         /\ DeleteStep(h) =>
              LET e == Current(h)
                  rows == Matching(filehash, e.file_path)
              IN  /\ bucket' = bucket
                  /\ task'[h].last.op = "delete"
                  /\ task'[h].last.file = e
                  /\ IF task'[h].last.res = "ok"
                     THEN /\ rows # {}
                          /\ filehash' = filehash \ rows
                          /\ task'[h].pc = "delete_object"
                          /\ task'[h].files = task[h].files
                          /\ task'[h].system_path \in { r.system_path : r \in rows }
                          /\ task'[h].last.key = task'[h].system_path
                          /\ Reports(task'[h], "delete") = Reports(task[h], "delete")
                     ELSE /\ filehash' = filehash
                          /\ task'[h].pc # "delete_object"
                          /\ Reports(task'[h], "delete") = Reports(task[h], "delete") + 1
                          /\ ResultOf(task'[h], "delete").success =
                               ResultOf(task[h], "delete").success
         /\ BlobStep(h) =>
              /\ task[h].last = Call("delete", Current(h), task[h].system_path, "ok")
              /\ task'[h].last.op = "delete_object"
              /\ task'[h].last.file = Current(h)
              /\ task'[h].last.key = task[h].system_path
              /\ task'[h].pc # "delete_object"
              /\ filehash' = filehash
              /\ bucket' \subseteq bucket
              /\ bucket \ bucket' \subseteq { task[h].system_path }
              /\ Reports(task'[h], "delete") = Reports(task[h], "delete") + 1
         /\ (task[h].pc = "entry" /\ task[h].cmd \in {"insert", "update"}
               /\ task'[h] # task[h]) =>
              /\ Reports(task'[h], task[h].cmd) = Reports(task[h], task[h].cmd) + 1
              /\ task'[h].pc # "delete_object"]_vars

\* a blob delete was sent with the key the removed row held, which is not the key of
\* the Delete entry's own file name
C15_Witness ==
    \E h \in DOMAIN task :
      /\ task[h].last.op = "delete_object"
      /\ task[h].last.res = "ok"
      /\ task[h].last.key # generate_system_path(task[h].last.file.file_name)
      /\ task[h].pc = "done"
      /\ "delete" \in DOMAIN task[h].response
      /\ task[h].response["delete"].success = <<task[h].last.file>>

\* the step of h is the blob delete of a Delete entry, and the blob store did it
BlobDeleteDone(h) ==
    /\ BlobStep(h)
    /\ task'[h].last.res = "ok"

\* C16: when a Delete entry for path p is recorded in the success list, neither the
\* row for p nor the object at the storage key that row held exists (on one
\* connection, so with no concurrent request), and what is recorded is the entry as
\* submitted.
C16_DeleteSuccess ==
    [][\A h \in DOMAIN task :
         /\ BlobDeleteDone(h) =>
              /\ Matching(filehash', Current(h).file_path) = {}
              /\ task[h].system_path \notin bucket'
              /\ ResultOf(task'[h], "delete").success =
                   Append(ResultOf(task[h], "delete").success, Current(h))
              /\ ResultOf(task'[h], "delete").failure = ResultOf(task[h], "delete").failure
              /\ task[h].payload # None
              /\ \E i \in DOMAIN task[h].payload[1]["delete"] :
                   task[h].payload[1]["delete"][i] = Current(h)
         /\ Len(ResultOf(task'[h], "delete").success) > Len(ResultOf(task[h], "delete").success)
              => BlobDeleteDone(h)]_vars

\* a Delete success with key data/f, in a store with another row: row and object are gone
C16_Witness ==
    \E h \in DOMAIN task :
      /\ task[h].pc = "done"
      /\ task[h].last.op = "delete_object"
      /\ task[h].last.res = "ok"
      /\ task[h].last.key = generate_system_path("f")
      /\ "delete" \in DOMAIN task[h].response
      /\ task[h].response["delete"].success = <<task[h].last.file>>
      /\ bucket = {}
      /\ Matching(filehash, task[h].last.file.file_path) = {}
      /\ filehash # {}

\* C17: the kinds keyed in the response of an answered manifest are the kinds keyed in
\* the manifest: a kind present with an empty list has an Operation Result with empty
\* success and failure lists and has made no store call (a store call is only ever
\* made for a kind whose list has entries, and a manifest of empty lists makes none),
\* and a kind absent from the manifest is absent from the response.
C17_ResponseKinds ==
    \A h \in DOMAIN task :
      LET t == task[h] IN
      /\ (t.payload # None /\ t.pc = "done") =>
           /\ DOMAIN t.response = DOMAIN t.text[1].json
           /\ \A k \in Operation :
                /\ k \notin DOMAIN t.text[1].json => k \notin DOMAIN t.response
                /\ (k \in DOMAIN t.text[1].json /\ t.text[1].json[k] = <<>>) =>
                     t.response[k] = OperationResult(<<>>, <<>>)
           /\ (\A k \in DOMAIN t.payload[1] : t.payload[1][k] = <<>>) => t.last = NoCall
      /\ (t.payload # None /\ t.last # NoCall) =>
           LET k == IF t.last.op = "delete_object" THEN "delete" ELSE t.last.op IN
           /\ k \in DOMAIN t.payload[1]
           /\ \E i \in DOMAIN t.payload[1][k] : t.payload[1][k][i] = t.last.file

\* a manifest with an empty insert list, one Delete entry and no update key, answered
C17_Witness ==
    \E h \in DOMAIN task :
      /\ task[h].pc = "done"
      /\ task[h].payload # None
      /\ DOMAIN task[h].payload[1] = {"insert", "delete"}
      /\ task[h].payload[1]["insert"] = <<>>
      /\ Len(task[h].payload[1]["delete"]) = 1
      /\ DOMAIN task[h].response = {"insert", "delete"}
      /\ task[h].response["insert"] = OperationResult(<<>>, <<>>)
      /\ Reports(task[h], "delete") = 1
      /\ task[h].last.op \in {"delete", "delete_object"}

\* the response and the final stores of a manifest run from the present stores
Outcome(payload, order) ==
    RunBatch([table |-> filehash, objects |-> bucket, response |-> <<>>], payload, order)

\* C18 as claimed: for a fixed starting store and a fixed manifest, the response and the
\* final store are the same for every order in which the kinds are processed, also
\* when entries of different kinds name the same path.
C18_Claimed ==
    \A h \in DOMAIN task :
      (task[h].pc = "fields" /\ task[h].payload # None) =>
        \A o1 \in Orders(DOMAIN task[h].payload[1]), o2 \in Orders(DOMAIN task[h].payload[1]) :
          Outcome(task[h].payload[1], o1) = Outcome(task[h].payload[1], o2)

\* C19: within one sync request every upload of an attached file part happens in the
\* multipart loop, before the first metadata call of manifest processing, whether the
\* payload part has been read by then or not; manifest processing never puts an object
\* in the bucket.
C19_UploadsFirst ==
    /\ [][\A h \in DOMAIN task :
            /\ (task'[h] # task[h] /\ ~(bucket' \subseteq bucket)) =>
                 /\ task[h].pc = "fields"
                 /\ task[h].last = NoCall
                 /\ task'[h].pc = "fields"
                 /\ task'[h].uploaded
            /\ (task'[h].uploaded /\ ~task[h].uploaded) =>
                 /\ task[h].pc = "fields"
                 /\ task[h].last = NoCall
                 /\ task'[h].payload = task[h].payload
            /\ (Processing(task[h]) /\ task'[h] # task[h]) =>
                 /\ bucket' \subseteq bucket
                 /\ ~task'[h].uploaded]_vars
    /\ [](\A h \in DOMAIN task :
            /\ task[h].pc = "fields" => task[h].last = NoCall
            /\ task[h].last # NoCall => ~task[h].uploaded)

\* a file part uploaded in a request whose payload part has been decoded, with the
\* manifest not yet begun
C19_Witness ==
    \E h \in DOMAIN task :
      /\ task[h].pc = "fields"
      /\ task[h].payload # None
      /\ SumLen(task[h].payload[1], DOMAIN task[h].payload[1]) > 0
      /\ task[h].uploaded
      /\ generate_system_path("f") \in bucket
      /\ task[h].last = NoCall

\* C20 as claimed: a Delete removes no object that a row still in the store refers to:
\* every remaining row whose object was in the bucket before the blob delete has it
\* afterwards, also when rows of different paths were inserted with one file name.
C20_Claimed ==
    [][\A h \in DOMAIN task :
         BlobStep(h) =>
           \A r \in filehash' :
             r.system_path \in bucket => r.system_path \in bucket']_vars

====
